---- MODULE Spec2Model ----
(***************************************************************************)
(* Model of guitarpro/gpx.py: the bit reader (BitFile), the BCFZ           *)
(* decompressor (GPXFileSystem.decompress) and the sector scan             *)
(* (GPXFileSystem._readUncompressedBlock).                                 *)
(*                                                                         *)
(* The code is read with Python 2 semantics (its own test feeds a str      *)
(* StringIO to struct.unpack, which only Python 2 accepts).                *)
(* Byte strings are sequences of integers 0..255; Python offsets are       *)
(* 0-based and TLA+ sequences 1-based, so byte i of s is s[i + 1].         *)
(***************************************************************************)
EXTENDS Integers, Sequences, FiniteSets, TLC

VARIABLES
    stream,          \* BitFile.stream: the bytes of the underlying source
    spos,            \* position of the underlying source (stream.tell())
    currentByte,     \* BitFile.currentByte
    position,        \* BitFile.position
    requested,       \* number of readbit calls made so far (history)
    ret,             \* the last call on the BitFile and what it returned
    pc,              \* control position inside GPXFileSystem
    expectedLength,  \* decompress: expectedLength
    uncompressed,    \* decompress: uncompressed
    lastStep,        \* decompress: the fields read by the last loop iteration
    data,            \* _readUncompressedBlock: data
    offset,          \* _readUncompressedBlock: offset
    filelist         \* GPXFileSystem.filelist

vars == <<stream, spos, currentByte, position, requested, ret, pc,
          expectedLength, uncompressed, lastStep, data, offset, filelist>>

bitVars == <<spos, currentByte, position, requested>>
gpxVars == <<pc, expectedLength, uncompressed, lastStep, data, offset, filelist>>

----------------------------------------------------------------------------
(* Bounds *)

MaxSrcLen == 2     \* longest byte source handed to a bare BitFile
MaxWidth  == 5     \* widest readbits call made on a bare BitFile
MaxOver   == 8     \* readbit calls a bare BitFile serves past the end of its source

----------------------------------------------------------------------------
(* Python values *)

None == -1            \* Python's None, where an int is expected

Min(a, b) == IF a < b THEN a ELSE b
Max(a, b) == IF a > b THEN a ELSE b

RECURSIVE Pow2(_)
Pow2(n) == IF n <= 0 THEN 1 ELSE 2 * Pow2(n - 1)

\* s[start:stop] on a sequence of length len: the half-open extent <<lo, hi>>
\* (0-based) that Python's slice selects; negative indices count from the end.
PySliceBounds(len, start, stop) ==
    LET norm(i) == IF i < 0 THEN Max(i + len, 0) ELSE Min(i, len)
        lo == norm(start)
        hi == norm(stop)
    IN  <<lo, Max(lo, hi)>>

PySlice(s, start, stop) ==
    LET b == PySliceBounds(Len(s), start, stop)
    IN  SubSeq(s, b[1] + 1, b[2])

\* hex(bits)[2:].rstrip('L'): the hexadecimal digits of a non-negative int,
\* most significant first, no leading zeros ("0" for 0).
RECURSIVE hex(_)
hex(n) == IF n < 16 THEN <<n>> ELSE Append(hex(n \div 16), n % 16)

\* binascii.unhexlify on an even number of digits
unhexlify(digits) ==
    [k \in 1 .. Len(digits) \div 2 |-> 16 * digits[2 * k - 1] + digits[2 * k]]

\* struct.unpack('<i', b) for a 4-byte b: signed 32-bit little-endian
unpack_i(b) ==
    LET hi == IF b[4] >= 128 THEN b[4] - 256 ELSE b[4]
    IN  b[1] + 256 * b[2] + 65536 * b[3] + 16777216 * hi

---------------------------------------------------------------------------------------------------------------------------------------------------
(* BitFile *)

Reader == [spos |-> spos, currentByte |-> currentByte, position |-> position]

\* BitFile.__init__
NewReader == [spos |-> 0, currentByte |-> None, position |-> 8]

\* readbit, lines 48-52: the bit at r.position of the current byte
serveBit(r) ==
    [r   |-> [r EXCEPT !.position = @ + 1],
     bit |-> (r.currentByte \div Pow2(7 - r.position)) % 2]

\* readbit with the refill test off by one: a new byte is fetched one bit early
readbit_early(s, r) ==
    IF r.position > 6
    THEN IF r.spos >= Len(s) THEN [r |-> r, bit |-> None]
         ELSE serveBit([spos |-> r.spos + 1, currentByte |-> s[r.spos + 1], position |-> 0])
    ELSE serveBit(r)

\* BitFile.readbit, on reader state r over the source s.
\* stream.read(1) at the end of the source returns '' and struct.unpack raises
\* struct.error, which readbit turns into None; the reader is left as it was.
readbit(s, r) ==
    IF r.position > 7
    THEN IF r.spos >= Len(s) THEN [r |-> r, bit |-> None]
         ELSE serveBit([spos |-> r.spos + 1, currentByte |-> s[r.spos + 1], position |-> 0])
    ELSE serveBit(r)

\* The readbit calls of readbits, lines 36-39, from reader r on:
\* list(iter(self.readbit, None)) when size = -1, which stops at the first
\* None, and [self.readbit() for _ in range(size)] otherwise. bitsAfter takes
\* the result x of the call just made.
RECURSIVE bitsFrom(_, _, _, _), bitsAfter(_, _, _, _)
bitsFrom(s, r, size, acc) ==
    IF size # -1 /\ size <= 0 THEN [r |-> r, bits |-> acc]
    ELSE bitsAfter(s, readbit(s, r), size, acc)

bitsAfter(s, x, size, acc) ==
    IF x.bit = None /\ size = -1 THEN [r |-> x.r, bits |-> acc]
    ELSE bitsFrom(s, x.r, IF size = -1 THEN -1 ELSE size - 1, acc \o <<x.bit>>)

\* BitFile._encodebits, from index on
RECURSIVE encodeFrom(_, _, _)
encodeFrom(bits, index, reversed_) ==
    IF index >= Len(bits) THEN 0
    ELSE (IF bits[index + 1] = None \/ bits[index + 1] = 0 THEN 0
          ELSE Pow2(IF ~reversed_ THEN Len(bits) - index - 1 ELSE index))
         + encodeFrom(bits, index + 1, reversed_)

\* _encodebits with the reversed_ flag ignored
_encodebits_noflag(bits, reversed_) == encodeFrom(bits, 0, FALSE)

\* BitFile._encodebits
_encodebits(bits, reversed_) == encodeFrom(bits, 0, reversed_)

\* readbits, line 40, on the bits x that were read; calls is the number of
\* readbit calls made and eof tells whether one of them returned None
encoded(x, size, reversed_) ==
    [r     |-> x.r,
     value |-> _encodebits(x.bits, reversed_),
     calls |-> IF size = -1 THEN Len(x.bits) + 1 ELSE Len(x.bits),
     eof   |-> size = -1 \/ \E i \in 1 .. Len(x.bits) : x.bits[i] = None]

\* BitFile.readbits
readbits(s, r, size, reversed_) == encoded(bitsFrom(s, r, size, <<>>), size, reversed_)

\* read, lines 31-32: the digits, with a '0' in front when their number is odd
evenDigits(digits) == IF Len(digits) % 2 = 1 THEN <<0>> \o digits ELSE digits

\* read, lines 30-33, on the result x of readbits
hexBytes(x) ==
    [r |-> x.r, bytes |-> unhexlify(evenDigits(hex(x.value))), calls |-> x.calls, eof |-> x.eof]

\* BitFile.read
read(s, r, size) == hexBytes(readbits(s, r, IF size = -1 THEN -1 ELSE size * 8, FALSE))

----------------------------------------------------------------------------
(* A bare BitFile driven through its public calls *)

SrcBytes == {0, 49, 50}      \* 0x00 and the '1', '2' of testBitFileReading

\* the sequences over S of length n, given those of length n - 1
Longer(S, seqs) == {Append(q, x) : q \in seqs, x \in S}

RECURSIVE SeqsOfLen(_, _)
SeqsOfLen(S, n) == IF n = 0 THEN {<<>>} ELSE Longer(S, SeqsOfLen(S, n - 1))

SeqsUpTo(S, n) == UNION {SeqsOfLen(S, k) : k \in 0 .. n}

\* fresh: the call was the first one made on the reader
NoCall == [op |-> "none", size |-> 0, reversed_ |-> FALSE, value |-> 0, bytes |-> <<>>,
           fresh |-> FALSE]

\* the model stops calling a bare BitFile once it has asked for this many bits
MaxRequested == 8 * Len(stream) + MaxOver

NoStep == [kind |-> "none", wordSize |-> 0, offset |-> 0, size |-> 0, before |-> 0,
           eof |-> FALSE]

NoData == [len |-> 0, bytes |-> <<>>]

InitBitFile ==
    /\ stream \in SeqsUpTo(SrcBytes, MaxSrcLen)
    /\ spos = NewReader.spos
    /\ currentByte = NewReader.currentByte
    /\ position = NewReader.position
    /\ requested = 0
    /\ ret = NoCall
    /\ pc = "bitfile"
    /\ expectedLength = 0
    /\ uncompressed = <<>>
    /\ lastStep = NoStep
    /\ data = NoData
    /\ offset = 0
    /\ filelist = <<>>

SetReader(r) ==
    /\ spos' = r.spos
    /\ currentByte' = r.currentByte
    /\ position' = r.position

CallReadbit ==
    /\ pc = "bitfile"
    /\ requested + 1 <= MaxRequested
    /\ \E x \in {readbit(stream, Reader)} :
         /\ SetReader(x.r)
         /\ requested' = requested + 1
         /\ ret' = [NoCall EXCEPT !.op = "readbit", !.value = x.bit,
                                  !.fresh = (requested = 0)]
    /\ UNCHANGED <<stream, gpxVars>>

CallReadbits ==
    /\ pc = "bitfile"
    /\ \E size \in 0 .. MaxWidth, reversed_ \in BOOLEAN :
         \E x \in {readbits(stream, Reader, size, reversed_)} :
            /\ requested + x.calls <= MaxRequested
            /\ SetReader(x.r)
            /\ requested' = requested + x.calls
            /\ ret' = [NoCall EXCEPT !.op = "readbits", !.size = size,
                                     !.reversed_ = reversed_, !.value = x.value,
                                     !.fresh = (requested = 0)]
    /\ UNCHANGED <<stream, gpxVars>>

CallRead ==
    /\ pc = "bitfile"
    /\ \E size \in -1 .. MaxSrcLen :
         \E x \in {read(stream, Reader, size)} :
            /\ requested + x.calls <= MaxRequested
            /\ SetReader(x.r)
            /\ requested' = requested + x.calls
            /\ ret' = [NoCall EXCEPT !.op = "read", !.size = size, !.bytes = x.bytes,
                                     !.fresh = (requested = 0)]
    /\ UNCHANGED <<stream, gpxVars>>

NextBitFile == CallReadbit \/ CallReadbits \/ CallRead

SpecBitFile == InitBitFile /\ [][NextBitFile]_vars

-----
(* GPXFileSystem._readContents and GPXFileSystem.decompress *)

_HEADER_BCFS == <<66, 67, 70, 83>>
_HEADER_BCFZ == <<66, 67, 70, 90>>

sectorSize == 4096

\* A byte buffer handed to _readUncompressedBlock: its length and its
\* non-zero bytes by 0-based offset (every other byte is 0x00).
Buffer(s) == [len   |-> Len(s),
              bytes |-> [i \in {j \in 0 .. Len(s) - 1 : s[j + 1] # 0} |-> s[i + 1]]]

\* for _ in range(size): uncompressed += self.fp.read(1), lines 180-181;
\* literalsAfter takes the result x of the read(1) just made
RECURSIVE literalsFrom(_, _, _, _, _), literalsAfter(_, _, _, _, _)
literalsFrom(s, r, size, buf, eof) ==
    IF size <= 0 THEN [r |-> r, buf |-> buf, eof |-> eof]
    ELSE literalsAfter(s, read(s, r, 1), size, buf, eof)

literalsAfter(s, x, size, buf, eof) ==
    literalsFrom(s, x.r, size - 1, buf \o x.bytes, eof \/ x.eof)

\* lines 179-181: the step made of the literals lits that were read
literalStep(lits, size, before, eof) ==
    [r    |-> lits.r,
     buf  |-> lits.buf,
     step |-> [kind |-> "literal", wordSize |-> 0, offset |-> 0, size |-> size.value,
               before |-> before, eof |-> eof \/ size.eof \/ lits.eof]]

\* lines 179-181, on the result size of readbits(2, reversed_=True)
literalRun(s, size, buf, eof) ==
    literalStep(literalsFrom(s, size.r, size.value, buf, FALSE), size, Len(buf), eof)

\* backReference with the position off by one
backReference_shifted(wordSize, offset_, size, buf) ==
    LET position_ == Len(buf) - offset_.value + 1
        toRead    == Min(offset_.value, size.value)
        subBuffer == PySlice(buf, position_, position_ + toRead)
    IN  [r    |-> size.r,
         buf  |-> buf \o subBuffer,
         step |-> [kind |-> "backref", wordSize |-> wordSize.value,
                   offset |-> offset_.value, size |-> size.value, before |-> Len(buf),
                   eof |-> wordSize.eof \/ offset_.eof \/ size.eof]]

\* lines 168-175, on the results wordSize, offset_, size of the three readbits
backReference(wordSize, offset_, size, buf) ==
    LET position_ == Len(buf) - offset_.value
        toRead    == Min(offset_.value, size.value)
        subBuffer == PySlice(buf, position_, position_ + toRead)
    IN  [r    |-> size.r,
         buf  |-> buf \o subBuffer,
         step |-> [kind |-> "backref", wordSize |-> wordSize.value,
                   offset |-> offset_.value, size |-> size.value, before |-> Len(buf),
                   eof |-> wordSize.eof \/ offset_.eof \/ size.eof]]

\* line 166, on the results of lines 164 and 165
afterOffset(s, wordSize, offset_, buf) ==
    backReference(wordSize, offset_, readbits(s, offset_.r, wordSize.value, TRUE), buf)

\* line 165, on the result of line 164
afterWordSize(s, wordSize, buf) ==
    afterOffset(s, wordSize, readbits(s, wordSize.r, wordSize.value, TRUE), buf)

\* lines 160-181, on the result flag of the readbit of line 159
afterFlag(s, flag, buf) ==
    IF flag.bit = 1
    THEN afterWordSize(s, readbits(s, flag.r, 4, FALSE), buf)
    ELSE literalRun(s, readbits(s, flag.r, 2, TRUE), buf, flag.bit = None)

\* one iteration of the while loop of decompress, on reader r and buffer buf
decompressStep(s, r, buf) == afterFlag(s, readbit(s, r), buf)

\* GPXFileSystem._readContents up to the call it dispatches to
ReadContents ==
    /\ pc = "_readContents"
    /\ \E header \in {read(stream, Reader, 4)} :
         \/ /\ header.bytes = _HEADER_BCFZ
            /\ SetReader(header.r)
            /\ pc' = "decompress"
            /\ UNCHANGED <<data, offset>>
         \/ /\ header.bytes = _HEADER_BCFS
            /\ \E rest \in {read(stream, header.r, -1)} :
                 /\ SetReader(rest.r)
                 /\ data' = Buffer(rest.bytes)
            /\ offset' = sectorSize
            /\ pc' = "_readUncompressedBlock"
         \/ /\ header.bytes # _HEADER_BCFZ
            /\ header.bytes # _HEADER_BCFS
            /\ SetReader(header.r)
            /\ pc' = "done"
            /\ UNCHANGED <<data, offset>>
    /\ UNCHANGED <<stream, requested, ret, expectedLength, uncompressed, lastStep, filelist>>

\* decompress, lines 155-156: struct.unpack raises struct.error unless read(4)
\* returned exactly 4 bytes, and nothing catches it
DecompressBegin ==
    /\ pc = "decompress"
    /\ \E b \in {read(stream, Reader, 4)} :
         /\ SetReader(b.r)
         /\ \/ /\ Len(b.bytes) = 4
               /\ expectedLength' = unpack_i(b.bytes)
               /\ uncompressed' = <<>>
               /\ pc' = "while"
            \/ /\ Len(b.bytes) # 4
               /\ pc' = "struct.error"
               /\ UNCHANGED <<expectedLength, uncompressed>>
    /\ UNCHANGED <<stream, requested, ret, lastStep, data, offset, filelist>>

\* decompress, lines 157-181: one iteration of the while loop
DecompressStep ==
    /\ pc = "while"
    /\ Len(uncompressed) < expectedLength
    /\ \E x \in {decompressStep(stream, Reader, uncompressed)} :
         /\ SetReader(x.r)
         /\ uncompressed' = x.buf
         /\ lastStep' = x.step
    /\ UNCHANGED <<stream, requested, ret, pc, expectedLength, data, offset, filelist>>

\* decompress, line 182, and the call of _readUncompressedBlock on its result
DecompressReturn ==
    /\ pc = "while"
    /\ ~(Len(uncompressed) < expectedLength)
    /\ data' = Buffer(PySlice(uncompressed, 4, Len(uncompressed)))
    /\ offset' = sectorSize
    /\ pc' = "_readUncompressedBlock"
    /\ UNCHANGED <<stream, bitVars, ret, expectedLength, uncompressed, lastStep, filelist>>

-----
(* GPXFileSystem._readUncompressedBlock *)

MaxEntries == 3     \* entries the scan appends to filelist before the model stops

Byte(d, i) == IF i \in DOMAIN d.bytes THEN d.bytes[i] ELSE 0

\* GPXFileSystem._readInt: struct.unpack_from('<i', data, offset). A negative
\* offset counts from the end of the buffer; struct.error when fewer than
\* 4 bytes lie at the offset.
unpackAt(d, o) ==
    IF o < 0 \/ d.len - o < 4 THEN [ok |-> FALSE, value |-> 0]
    ELSE [ok    |-> TRUE,
          value |-> unpack_i(<<Byte(d, o), Byte(d, o + 1), Byte(d, o + 2), Byte(d, o + 3)>>)]

_readInt(d, off) == unpackAt(d, IF off < 0 THEN off + d.len ELSE off)

\* the 'cp1252' codec on the bytes 0x80 .. 0x9F; five of them are undefined
cp1252High ==
    <<8364, None, 8218, 402, 8222, 8230, 8224, 8225,
      710, 8240, 352, 8249, 338, None, 381, None,
      None, 8216, 8217, 8220, 8221, 8226, 8211, 8212,
      732, 8482, 353, 8250, 339, None, 382, 376>>

cp1252(b) == IF b < 128 \/ b >= 160 THEN b ELSE cp1252High[b - 127]

\* bytes.decode('cp1252'): UnicodeDecodeError on an undefined byte
decoded(chars) == [ok |-> \A i \in 1 .. Len(chars) : chars[i] # None, chars |-> chars]

\* the bytes of the extent b of d, each through the codec
codecOn(d, b) == [i \in 1 .. b[2] - b[1] |-> cp1252(Byte(d, b[1] + i - 1))]

\* GPXFileSystem._readString: data[offset:offset + length].decode('cp1252')
_readString(d, off, length) == decoded(codecOn(d, PySliceBounds(d.len, off, off + length)))

\* the first and the last index of chars that holds a non-zero character
firstKept(chars) == CHOOSE i \in 1 .. Len(chars) : chars[i] # 0 /\ \A j \in 1 .. i - 1 : chars[j] = 0
lastKept(chars) ==
    CHOOSE i \in 1 .. Len(chars) : chars[i] # 0 /\ \A j \in i + 1 .. Len(chars) : chars[j] = 0

\* unicode.strip(b'\x00'): drops the zero characters at both ends
strip(chars) ==
    IF \A i \in 1 .. Len(chars) : chars[i] = 0 THEN <<>>
    ELSE SubSeq(chars, firstKept(chars), lastKept(chars))

\* fileData += data[offset:offset + sectorSize]. A byte string cut from data is
\* kept as the extent <<lo, hi>> of data it was sliced from, and fileData as
\* the sequence of its non-empty extents, in the order they were appended.
appendExtent(fileData, ext) == IF ext[1] = ext[2] THEN fileData ELSE Append(fileData, ext)

\* The inner while loop, lines 227-235; sectorNext takes the result next of the
\* _readInt of line 233.
RECURSIVE sectorWalk(_, _, _, _, _, _), sectorNext(_, _, _, _, _, _)
sectorWalk(d, dataPointerOffset, sectorCount, sector, off, fileData) ==
    IF sector = 0 THEN [ok |-> TRUE, offset |-> off, fileData |-> fileData]
    ELSE sectorNext(d, dataPointerOffset, sectorCount + 1,
                    _readInt(d, dataPointerOffset + 4 * (sectorCount + 1)),
                    sector * sectorSize,
                    appendExtent(fileData,
                                 PySliceBounds(d.len, sector * sectorSize,
                                               sector * sectorSize + sectorSize)))

sectorNext(d, dataPointerOffset, sectorCount, next, off, fileData) ==
    IF ~next.ok THEN [ok |-> FALSE, offset |-> off, fileData |-> fileData]
    ELSE sectorWalk(d, dataPointerOffset, sectorCount, next.value, off, fileData)

\* lines 237-240: what the iteration leaves, given what it read
fileEntry(fileName, fileSize, walk) ==
    IF ~fileName.ok THEN [raised |-> "UnicodeDecodeError"]
    ELSE IF ~fileSize.ok \/ ~walk.ok THEN [raised |-> "struct.error"]
    ELSE [raised  |-> "",
          offset  |-> walk.offset,
          gpxFile |-> [fileName |-> strip(fileName.chars),
                       fileSize |-> fileSize.value,
                       data     |-> walk.fileData]]

\* lines 220-235, on the result sector of the _readInt of line 222
chainFrom(d, off, sectorCount, sector) ==
    IF ~sector.ok THEN [ok |-> FALSE, offset |-> off, fileData |-> <<>>]
    ELSE sectorWalk(d, off + 148, sectorCount, sector.value, off, <<>>)

\* lines 217-235, the sector chain read from its index first on
chainAt(d, off, first) == chainFrom(d, off, first, _readInt(d, off + 148 + 4 * first))

\* readFile with the sector chain read from index 0 instead of index 1
readFile_index0(d, off) ==
    fileEntry(_readString(d, off + 4, 127), _readInt(d, off + 140), chainAt(d, off, 0))

\* The body of "if entryType == 2", lines 212-238, on the record at off
readFile(d, off) ==
    fileEntry(_readString(d, off + 4, 127), _readInt(d, off + 140), chainAt(d, off, 1))

\* One iteration of the outer while loop (line 194) on a file record
ScanFile ==
    /\ pc = "_readUncompressedBlock"
    /\ offset + 3 < data.len
    /\ Len(filelist) < MaxEntries
    /\ \E entryType \in {_readInt(data, offset)} :
         /\ entryType.ok
         /\ entryType.value = 2
    /\ \E x \in {readFile(data, offset)} :
         \/ /\ x.raised = ""
            /\ filelist' = Append(filelist, x.gpxFile)
            /\ offset' = x.offset + sectorSize
            /\ pc' = pc
         \/ /\ x.raised # ""
            /\ pc' = x.raised
            /\ UNCHANGED <<filelist, offset>>
    /\ UNCHANGED <<stream, bitVars, ret, expectedLength, uncompressed, lastStep, data>>

\* One iteration of the outer while loop on any other sector
ScanSkip ==
    /\ pc = "_readUncompressedBlock"
    /\ offset + 3 < data.len
    /\ \E entryType \in {_readInt(data, offset)} :
         \/ /\ entryType.ok
            /\ entryType.value # 2
            /\ offset' = offset + sectorSize
            /\ pc' = pc
         \/ /\ ~entryType.ok
            /\ pc' = "struct.error"
            /\ UNCHANGED offset
    /\ UNCHANGED <<stream, bitVars, ret, expectedLength, uncompressed, lastStep, data, filelist>>

\* The outer while loop ends and _readUncompressedBlock returns
ScanStop ==
    /\ pc = "_readUncompressedBlock"
    /\ ~(offset + 3 < data.len)
    /\ pc' = "done"
    /\ UNCHANGED <<stream, bitVars, ret, expectedLength, uncompressed, lastStep, data,
                   offset, filelist>>

-----
(* Opening a container: GPXFileSystem.__init__ in mode 'r' *)

MaxSteps == 3      \* steps in the bitstream of a generated BCFZ container
MaxCut   == 2      \* bytes cut off the end of a generated container

\* the w bits of v, most significant first, or least significant first
BitsOf(v, w, reversed_) ==
    [i \in 1 .. w |-> (v \div Pow2(IF reversed_ THEN i - 1 ELSE w - i)) % 2]

RECURSIVE Flatten(_)
Flatten(ss) == IF ss = <<>> THEN <<>> ELSE Head(ss) \o Flatten(Tail(ss))

Lit(bytes) == [kind |-> "literal", bytes |-> bytes]
Ref(wordSize, off, size) == [kind |-> "backref", wordSize |-> wordSize, offset |-> off, size |-> size]

\* the bits of one step of the BCFZ bitstream, as decompress reads them
StepBits(st) ==
    IF st.kind = "literal"
    THEN <<0>> \o BitsOf(Len(st.bytes), 2, TRUE)
              \o Flatten([i \in 1 .. Len(st.bytes) |-> BitsOf(st.bytes[i], 8, FALSE)])
    ELSE <<1>> \o BitsOf(st.wordSize, 4, FALSE)
              \o BitsOf(st.offset, st.wordSize, TRUE)
              \o BitsOf(st.size, st.wordSize, TRUE)

\* bits to bytes, the last byte filled up with 0 bits
PackBits(bits) ==
    [k \in 1 .. (Len(bits) + 7) \div 8 |->
        _encodebits([j \in 1 .. 8 |-> IF 8 * (k - 1) + j <= Len(bits)
                                      THEN bits[8 * (k - 1) + j] ELSE 0], FALSE)]

\* v as 4 bytes, little-endian two's complement
packBytes(u, top) == <<u % 256, (u \div 256) % 256, (u \div 65536) % 256, (u \div 16777216) + top>>

pack_i(v) == IF v < 0 THEN packBytes((v + 2147483647) + 1, 128) ELSE packBytes(v, 0)

Steps == { Lit(<<>>), Lit(<<100>>), Lit(<<97, 98, 99>>),
           Ref(0, 0, 0), Ref(3, 4, 6), Ref(3, 2, 1), Ref(3, 6, 2) }

ExpectedLengths == {3, 7, 8, 256}

CutEnd(s, n) == SubSeq(s, 1, Len(s) - Min(n, Len(s)))

\* the body of a container: the steps sts as a bitstream
Body(sts) == PackBits(Flatten([i \in 1 .. Len(sts) |-> StepBits(sts[i])]))

CompressedContainers ==
    { CutEnd(_HEADER_BCFZ \o pack_i(n) \o Body(sts), c) :
        n \in ExpectedLengths, sts \in SeqsUpTo(Steps, MaxSteps), c \in 0 .. MaxCut }

OtherContainers ==
    { h \o b : h \in {_HEADER_BCFS, <<66, 67, 70, 88>>, <<71, 80, 88>>},
               b \in SeqsUpTo({0, 255}, 2) }

Init ==
    /\ stream \in CompressedContainers \cup OtherContainers
    /\ spos = NewReader.spos
    /\ currentByte = NewReader.currentByte
    /\ position = NewReader.position
    /\ requested = 0
    /\ ret = NoCall
    /\ pc = "_readContents"
    /\ expectedLength = 0
    /\ uncompressed = <<>>
    /\ lastStep = NoStep
    /\ data = NoData
    /\ offset = 0
    /\ filelist = <<>>

Next == ReadContents \/ DecompressBegin \/ DecompressStep \/ DecompressReturn \/ ScanStop

Spec == Init /\ [][Next]_vars

----------------------------------------------------------------------------
(* _readUncompressedBlock on generated sector buffers *)

MaxSectors == 4     \* sectors of a generated buffer, the reserved sector 0 included

File(name, size, chain) == [tag |-> 2, name |-> name, size |-> size, chain |-> chain]
NoFile(tag) == [tag |-> tag, name |-> <<>>, size |-> 0, chain |-> <<>>]

test_gp == <<116, 101, 115, 116, 46, 103, 112>>     \* "test.gp"

Records == { NoFile(0), NoFile(1),
             File(test_gp, 10, <<>>), File(test_gp, 10, <<1>>), File(test_gp, 10, <<2>>),
             File(<<0, 97, 128>>, 5000, <<3, 2>>), File(<<97, 129>>, 1, <<2>>),
             File(<<97>>, 0, <<-3>>), File(<<128>>, 7, <<9>>) }

\* the non-zero bytes of field at offset base, as <<offset, byte>> pairs
Cells(base, field) == { <<base + i - 1, field[i]>> : i \in {j \in 1 .. Len(field) : field[j] # 0} }

\* the bytes of a record laid out in sector k as lines 199-208 describe it
CellsAt(base, rec) ==
    Cells(base, pack_i(rec.tag))
      \cup Cells(base + 4, rec.name)
      \cup Cells(base + 140, pack_i(rec.size))
      \cup UNION { Cells(base + 148 + 4 * j, pack_i(rec.chain[j])) : j \in 1 .. Len(rec.chain) }

RecordCells(k, rec) == CellsAt(k * sectorSize, rec)

LastSizes == {sectorSize, 160, 4}

\* a buffer of nsec sectors, sector k holding recs[k], the last sector cut to last bytes
BufferOf(len, cells) ==
    [len   |-> len,
     bytes |-> [i \in {c[1] : c \in cells} |-> (CHOOSE c \in cells : c[1] = i)[2]]]

SectorBuffer(nsec, recs, last) ==
    BufferOf((nsec - 1) * sectorSize + last,
             { c \in UNION { RecordCells(k, recs[k]) : k \in 1 .. nsec - 1 } :
                 c[1] < (nsec - 1) * sectorSize + last })

InitScan ==
    /\ \E nsec \in 2 .. MaxSectors, last \in LastSizes :
         \E recs \in [1 .. nsec - 1 -> Records] :
            data = SectorBuffer(nsec, recs, last)
    /\ stream = <<>>
    /\ spos = NewReader.spos
    /\ currentByte = NewReader.currentByte
    /\ position = NewReader.position
    /\ requested = 0
    /\ ret = NoCall
    /\ pc = "_readUncompressedBlock"
    /\ expectedLength = 0
    /\ uncompressed = <<>>
    /\ lastStep = NoStep
    /\ offset = sectorSize
    /\ filelist = <<>>

NextScan == ScanFile \/ ScanSkip \/ ScanStop

SpecScan == InitScan /\ [][NextScan]_vars


----------------------------------------------------------------------------
(* Properties of BitFile, checked under SpecBitFile *)

\* C4: the byte reader is lossless: on a fresh reader over a source of N
\* bytes, read(N) and read(-1) both return exactly the N bytes of the source.
C4_Lossless ==
    (ret.op = "read" /\ ret.fresh /\ ret.size \in {-1, Len(stream)}) => ret.bytes = stream

\* the value whose bit i is bit w-1-i of v
RECURSIVE Reflect(_, _)
Reflect(v, w) == IF w = 0 THEN 0 ELSE (v % 2) * Pow2(w - 1) + Reflect(v \div 2, w - 1)

\* C6: from every reader state and for every width w, readbits(w, reversed_=True)
\* returns the w-bit reflection of what readbits(w) returns; the first bit read
\* is bit 0 of the reversed result and bit w-1 of the normal one; both calls
\* make w readbit calls and leave the reader in the same state.
C6_Reflection ==
    \A w \in 0 .. MaxWidth :
        \E normal \in {readbits(stream, Reader, w, FALSE)},
           rev \in {readbits(stream, Reader, w, TRUE)},
           first \in {readbit(stream, Reader).bit} :
            /\ rev.value = Reflect(normal.value, w)
            /\ rev.r = normal.r
            /\ rev.calls = w /\ normal.calls = w
            /\ (w >= 1 /\ first # None) =>
                 /\ rev.value % 2 = first
                 /\ normal.value \div Pow2(w - 1) = first

\* the reversed 5-bit read of testBitFileReading: bits 1,0,0,1,0 give 0b01000
C6_Witness ==
    /\ stream = <<49, 50>>
    /\ requested = 9
    /\ ret.op = "readbits" /\ ret.reversed_ /\ ret.size = 5
    /\ ret.value = 8

\* C10: after k readbit calls in all on a source of N bytes the source
\* position is min(N, ceil(k / 8)): 0 before the first call, one byte further
\* on the first bit of each new byte, unchanged on the other seven.
C10_LazyFetch == spos = Min(Len(stream), (requested + 7) \div 8)

\* the end of testBitFileReading: 17 bits asked of the 2-byte source '12'
C10_Witness ==
    /\ stream = <<49, 50>>
    /\ requested = 17
    /\ spos = 2
    /\ ret.op = "read" /\ ret.bytes = <<100>>

----------------------------------------------------------------------------
(* Properties of opening a container, checked under Spec *)

\* C1: when the source of a BCFZ container ends before the buffer has reached
\* expectedLength (a loop iteration asked for a bit the source did not have),
\* decompress stops with a TruncatedSource error.
C1_TruncatedSource == lastStep.eof => pc = "TruncatedSource"

\* C2: when the first 4 bytes of the source are neither BCFZ nor BCFS, opening
\* the container ends in an UnrecognizedContainer error, never in success.
C2_UnrecognizedContainer ==
    (/\ pc # "_readContents"
     /\ SubSeq(stream, 1, Min(4, Len(stream))) \notin {_HEADER_BCFZ, _HEADER_BCFS})
        => pc = "UnrecognizedContainer"

\* the last loop iteration was a back-reference into the buffer with size > offset
C3_Case ==
    /\ lastStep.kind = "backref"
    /\ 0 < lastStep.offset
    /\ lastStep.offset <= lastStep.before
    /\ lastStep.size > lastStep.offset

\* C3 as stated: such a step appends exactly size bytes, byte i of them being
\* the byte at oldLength - offset + i of the growing buffer.
C3_AppendsSize ==
    C3_Case =>
        /\ Len(uncompressed) = lastStep.before + lastStep.size
        /\ \A i \in 0 .. lastStep.size - 1 :
             uncompressed[lastStep.before + i + 1]
               = uncompressed[lastStep.before - lastStep.offset + i + 1]

\* C3 amended: such a step appends exactly offset bytes, byte i of them being
\* the byte at oldLength - offset + i, which lies in the buffer as it stood
\* before the step.
C3_AppendsOffset ==
    C3_Case =>
        /\ Len(uncompressed) = lastStep.before + lastStep.offset
        /\ \A i \in 0 .. lastStep.offset - 1 :
             uncompressed[lastStep.before + i + 1]
               = uncompressed[lastStep.before - lastStep.offset + i + 1]

\* offset=4, size=6 against "abcd" has appended "abcd"
C3_Witness ==
    /\ lastStep.kind = "backref" /\ lastStep.offset = 4 /\ lastStep.size = 6
    /\ lastStep.before = 4
    /\ uncompressed = <<97, 98, 99, 100, 97, 98, 99, 100>>

\* C7: whenever decompress has returned, the buffer before stripping has
\* exactly expectedLength bytes, and the value handed on expectedLength - 4.
C7_ExactLength ==
    pc \in {"_readUncompressedBlock", "done"} =>
        /\ Len(uncompressed) = expectedLength
        /\ expectedLength >= 4 => data.len = expectedLength - 4

\* C8: a back-reference whose offset exceeds the current buffer length is
\* reported as CorruptBackReference and appends nothing.
C8_CorruptBackReference ==
    (lastStep.kind = "backref" /\ lastStep.offset > lastStep.before) =>
        /\ pc = "CorruptBackReference"
        /\ Len(uncompressed) = lastStep.before

----------------------------------------------------------------------------
(* Properties of the sector scan, checked under SpecScan *)

MaxChain == 3      \* longest sector chain the statement of C5 looks for

\* the 32-bit little-endian integer at o
C5_Int(o) ==
    LET b(i) == Byte(data, o + i)
    IN  b(0) + 256 * b(1) + 65536 * b(2)
          + 16777216 * (IF b(3) >= 128 THEN b(3) - 256 ELSE b(3))

\* the j-th entry of the sector chain of the record at o
C5_Sector(o, j) == C5_Int(o + 148 + 4 * j)

\* the record at o has a sector chain of k entries, each a sector of the buffer
C5_ChainIs(o, k) ==
    /\ o + 148 + 4 * (k + 1) + 4 <= data.len
    /\ C5_Sector(o, k + 1) = 0
    /\ \A j \in 1 .. k :
         /\ C5_Sector(o, j) >= 1
         /\ (C5_Sector(o, j) + 1) * sectorSize <= data.len

\* name is field without the zeros at its ends
C5_Stripped(field, name) ==
    /\ \E a \in 0 .. Len(field) - Len(name) :
         /\ \A i \in 1 .. Len(name) : name[i] = field[a + i]
         /\ \A i \in 1 .. Len(field) : (i <= a \/ i > a + Len(name)) => field[i] = 0
    /\ name # <<>> => (name[1] # 0 /\ name[Len(name)] # 0)

\* the 127-byte field at +0x04 of the record at o, byte by byte
C5_Field(o) == [i \in 1 .. 127 |-> Byte(data, o + 4 + i - 1)]

C5_TwoSectors ==
    \E i \in 1 .. Len(filelist) :
        filelist[i] = [fileName |-> <<97, 8364>>, fileSize |-> 5000,
                       data |-> <<<<12288, 16384>>, <<8192, 12288>>>>]

C9_CursorIncreases ==
    [][ (pc = "_readUncompressedBlock" /\ pc' = "_readUncompressedBlock") => offset' > offset ]_vars


====
